---- MODULE Spec2Model ----
(***************************************************************************)
(* Model of src/webhook_server.py: the Flask handler webhook() that        *)
(* parses a JSON body, logs its receipt, forwards it with requests.post    *)
(* and logs the outcome.  Requests are handled by concurrent threads; the  *)
(* only shared state is the log file behind the root logger's FileHandler. *)
(* JSON texts are sequences of tokens; a " " token is insignificant        *)
(* whitespace.  Timestamps are left out of the log messages, and so is the *)
(* print() of the receipt line, which touches no state of the handler.     *)
(***************************************************************************)
EXTENDS Integers, Sequences, FiniteSets, TLC

\* ---- bounds ----
NumRequests == 2

Req == 1..NumRequests

\* ---- JSON values as Python objects ----
NoneVal == [t |-> "None"]
Num(n) == [t |-> "num", n |-> n]
Bool(b) == [t |-> "bool", b |-> b]
Str(s) == [t |-> "str", s |-> s]
Arr(items) == [t |-> "arr", items |-> items]
Obj(members) == [t |-> "obj", members |-> members]

NumToks == {"0", "1"}
StrToks == {"\"\"", "\"a\"", "\"b\""}
ScalarToks == {"null", "false", "true"} \cup NumToks \cup StrToks

StrVal(tok) == CASE tok = "\"\"" -> ""
                 [] tok = "\"a\"" -> "a"
                 [] tok = "\"b\"" -> "b"

StrTok(s) == CASE s = "" -> "\"\""
               [] s = "a" -> "\"a\""
               [] s = "b" -> "\"b\""

ScalarVal(tok) == CASE tok = "null" -> NoneVal
                    [] tok = "false" -> Bool(FALSE)
                    [] tok = "true" -> Bool(TRUE)
                    [] tok = "0" -> Num(0)
                    [] tok = "1" -> Num(1)
                    [] tok \in StrToks -> Str(StrVal(tok))

Strip(text) == SelectSeq(text, LAMBDA tok : tok # " ")

\* dict[k] = v: an existing key keeps its position and takes the new value
RECURSIVE DictSet(_, _, _)
DictSet(members, k, v) ==
    IF members = <<>> THEN <<[k |-> k, v |-> v]>>
    ELSE IF Head(members).k = k THEN <<[k |-> k, v |-> v]>> \o Tail(members)
    ELSE <<Head(members)>> \o DictSet(Tail(members), k, v)

ParseFail == [ok |-> FALSE, value |-> NoneVal]

RECURSIVE ParseMembers(_, _)
ParseMembers(ts, acc) ==
    IF Len(ts) >= 3 /\ ts[1] \in StrToks /\ ts[2] = ":" /\ ts[3] \in ScalarToks
    THEN LET acc2 == DictSet(acc, StrVal(ts[1]), ScalarVal(ts[3]))
         IN IF Len(ts) = 3 THEN [ok |-> TRUE, value |-> Obj(acc2)]
            ELSE IF ts[4] = "," /\ Len(ts) > 4
                 THEN ParseMembers(SubSeq(ts, 5, Len(ts)), acc2)
                 ELSE ParseFail
    ELSE ParseFail

\* json.loads on the body text
json_loads(text) ==
    LET ts == Strip(text) IN
    IF Len(ts) = 1 /\ ts[1] \in ScalarToks
    THEN [ok |-> TRUE, value |-> ScalarVal(ts[1])]
    ELSE IF Len(ts) = 2 /\ ts[1] = "[" /\ ts[2] = "]"
    THEN [ok |-> TRUE, value |-> Arr(<<>>)]
    ELSE IF Len(ts) = 3 /\ ts[1] = "[" /\ ts[3] = "]" /\ ts[2] \in ScalarToks
    THEN [ok |-> TRUE, value |-> Arr(<<ScalarVal(ts[2])>>)]
    ELSE IF Len(ts) = 2 /\ ts[1] = "{" /\ ts[2] = "}"
    THEN [ok |-> TRUE, value |-> Obj(<<>>)]
    ELSE IF Len(ts) >= 5 /\ ts[1] = "{" /\ ts[Len(ts)] = "}"
    THEN ParseMembers(SubSeq(ts, 2, Len(ts) - 1), <<>>)
    ELSE ParseFail

DumpScalar(v) == CASE v.t = "None" -> "null"
                   [] v.t = "bool" -> IF v.b THEN "true" ELSE "false"
                   [] v.t = "num" -> IF v.n = 0 THEN "0" ELSE "1"
                   [] v.t = "str" -> StrTok(v.s)

RECURSIVE DumpMembers(_)
DumpMembers(members) ==
    IF members = <<>> THEN <<>>
    ELSE <<StrTok(Head(members).k), ":", " ", DumpScalar(Head(members).v)>>
         \o (IF Tail(members) = <<>> THEN <<>> ELSE <<",", " ">>)
         \o DumpMembers(Tail(members))

\* a serialiser that writes only the first member of an object
dumps_firstOnly(v) ==
    IF v.t = "obj"
    THEN <<"{">> \o (IF v.members = <<>> THEN <<>>
                     ELSE DumpMembers(<<Head(v.members)>>)) \o <<"}">>
    ELSE IF v.t = "arr"
    THEN <<"[">> \o (IF v.items = <<>> THEN <<>>
                     ELSE <<DumpScalar(v.items[1])>>) \o <<"]">>
    ELSE <<DumpScalar(v)>>

\* json.dumps as requests applies it to the json= argument
dumps(v) ==
    IF v.t = "obj" THEN <<"{">> \o DumpMembers(v.members) \o <<"}">>
    ELSE IF v.t = "arr"
    THEN <<"[">> \o (IF v.items = <<>> THEN <<>>
                     ELSE <<DumpScalar(v.items[1])>>) \o <<"]">>
    ELSE <<DumpScalar(v)>>

\* Python truth value of the parsed payload
Truthy(v) == CASE v.t = "None" -> FALSE
               [] v.t = "bool" -> v.b
               [] v.t = "num" -> v.n # 0
               [] v.t = "str" -> v.s # ""
               [] v.t = "arr" -> v.items # <<>>
               [] v.t = "obj" -> v.members # <<>>

\* ---- inbound requests ----
MissingBody == <<>>
MalformedBodies == {<<"oops">>, <<"{", "\"a\"", ":">>}
FalsyBodies == {<<"null">>, <<"0">>, <<"false">>, <<"\"\"">>,
                <<"[", "]">>, <<"{", "}">>}
TruthyBodies == {<<"{", "\"a\"", ":", "1", "}">>,
                 <<"{", " ", "\"a\"", ":", "0", ",", "\"a\"", ":", "1", ",",
                   "\"b\"", ":", "0", "}">>}
Bodies == {MissingBody} \cup MalformedBodies \cup FalsyBodies \cup TruthyBodies

Inbound == [ctype : {"json"}, body : Bodies]
           \cup [ctype : {"other"}, body : {<<"oops">>}]

NoInbound == [ctype |-> "none", body |-> <<>>]

\* request.json: the outcomes Flask can produce for the request
request_json(req) ==
    IF req.ctype # "json"
    THEN {[kind |-> "value", code |-> 0, value |-> NoneVal],
          [kind |-> "abort", code |-> 400, value |-> NoneVal],
          [kind |-> "abort", code |-> 415, value |-> NoneVal]}
    ELSE IF json_loads(req.body).ok
    THEN {[kind |-> "value", code |-> 0, value |-> json_loads(req.body).value]}
    ELSE {[kind |-> "abort", code |-> 400, value |-> NoneVal]}

\* ---- responses ----
AbortResponse(code) ==
    [status |-> code, mimetype |-> "html", body |-> [html |-> "error page"]]

InvalidPayloadResponse ==
    [status |-> 400, mimetype |-> "json",
     body |-> [error |-> "Invalid JSON payload"]]

ErrorResponse_noDetail(e) ==
    [status |-> 500, mimetype |-> "json",
     body |-> [status |-> "error", message |-> "Failed to forward to remote",
               error |-> ""]]

ErrorResponse(e) ==
    [status |-> 500, mimetype |-> "json",
     body |-> [status |-> "error", message |-> "Failed to forward to remote",
               error |-> e]]

SuccessResponse_fixed(c) ==
    [status |-> 200, mimetype |-> "json",
     body |-> [status |-> "success", message |-> "Alert received and forwarded",
               remote_status |-> 200]]

SuccessResponse(c) ==
    [status |-> 200, mimetype |-> "json",
     body |-> [status |-> "success", message |-> "Alert received and forwarded",
               remote_status |-> c]]

\* ---- the remote endpoint ----
RemoteCodes == {200, 500}
RemoteErrors == {"timeout", "connection"}
NoOutcome == [kind |-> "none"]
RemoteOutcomes ==
    [kind : {"response"}, code : RemoteCodes, text : {"remote body"}]
    \cup [kind : {"raise"}, err : RemoteErrors]

\* ---- control flow of webhook() ----
Rejects(d) == ~Truthy(d)

AfterCheck_fallthrough(d) == "log_receipt"

AfterCheck(d) == IF Rejects(d) THEN "done" ELSE "log_receipt"

AfterPost_skipErrorLog(o) == IF o.kind = "raise" THEN "respond" ELSE "log_outcome"

AfterPost(o) == "log_outcome"

VARIABLES pc, inbound, data, outcome, resp, emit, logfile, outbound

vars == <<pc, inbound, data, outcome, resp, emit, logfile, outbound>>

AfterOutcomeLog_retry(o) ==
    IF o.kind = "raise" /\ Len(outbound) < 2 * NumRequests THEN "post" ELSE "respond"

AfterOutcomeLog(o) == "respond"

FinalResponse(o) ==
    IF o.kind = "raise" THEN ErrorResponse(o.err) ELSE SuccessResponse(o.code)

ReceiptMessage(r) == [kind |-> "receipt", data |-> data[r]]

OutcomeMessage(r) ==
    IF outcome[r].kind = "raise"
    THEN [kind |-> "error", err |-> outcome[r].err]
    ELSE [kind |-> "forwarded", status |-> outcome[r].code,
          text |-> outcome[r].text]

LogMessage(r) == IF pc[r] = "log_receipt" THEN ReceiptMessage(r)
                 ELSE OutcomeMessage(r)

\* Handler.acquire: the FileHandler's lock is free
CanAcquire_noLock(r) == TRUE

CanAcquire(r) == \A q \in Req : emit[q] = "idle"

Init ==
    /\ pc = [r \in Req |-> "idle"]
    /\ inbound = [r \in Req |-> NoInbound]
    /\ data = [r \in Req |-> NoneVal]
    /\ outcome = [r \in Req |-> NoOutcome]
    /\ resp = [r \in Req |-> <<>>]
    /\ emit = [r \in Req |-> "idle"]
    /\ logfile = <<>>
    /\ outbound = <<>>

\* a client POSTs to /webhook (requests are numbered in order of arrival);
\* data = request.json; if not data: return 400
Receive(r) ==
    /\ pc[r] = "idle"
    /\ IF r = 1 THEN TRUE ELSE pc[r - 1] # "idle"
    /\ \E req \in Inbound :
         /\ inbound' = [inbound EXCEPT ![r] = req]
         /\ \E res \in request_json(req) :
              IF res.kind = "abort"
              THEN /\ resp' = [resp EXCEPT ![r] = Append(@, AbortResponse(res.code))]
                   /\ pc' = [pc EXCEPT ![r] = "done"]
                   /\ data' = data
              ELSE /\ data' = [data EXCEPT ![r] = res.value]
                   /\ resp' = [resp EXCEPT ![r] =
                                 IF Rejects(res.value)
                                 THEN Append(@, InvalidPayloadResponse) ELSE @]
                   /\ pc' = [pc EXCEPT ![r] = AfterCheck(res.value)]
    /\ UNCHANGED <<outcome, emit, logfile, outbound>>

\* logging.info / logging.error: Handler.handle takes the handler lock and
\* StreamHandler.emit starts writing the formatted message ...
LogBegin(r) ==
    /\ pc[r] \in {"log_receipt", "log_outcome"}
    /\ emit[r] = "idle"
    /\ CanAcquire(r)
    /\ logfile' = Append(logfile, [req |-> r, part |-> "msg", msg |-> LogMessage(r)])
    /\ emit' = [emit EXCEPT ![r] = "partial"]
    /\ UNCHANGED <<pc, inbound, data, outcome, resp, outbound>>

\* ... then the terminator; the lock is released and the call returns
LogEnd(r) ==
    /\ emit[r] = "partial"
    /\ logfile' = Append(logfile, [req |-> r, part |-> "nl", msg |-> LogMessage(r)])
    /\ emit' = [emit EXCEPT ![r] = "idle"]
    /\ pc' = [pc EXCEPT ![r] = IF pc[r] = "log_receipt" THEN "post"
                               ELSE AfterOutcomeLog(outcome[r])]
    /\ UNCHANGED <<inbound, data, outcome, resp, outbound>>

\* remote_resp = requests.post(REMOTE_BASE_URL, json=data, timeout=10)
Post(r) ==
    /\ pc[r] = "post"
    /\ outbound' = Append(outbound, [req |-> r, body |-> dumps(data[r])])
    /\ \E o \in RemoteOutcomes :
         /\ outcome' = [outcome EXCEPT ![r] = o]
         /\ pc' = [pc EXCEPT ![r] = AfterPost(o)]
    /\ UNCHANGED <<inbound, data, resp, emit, logfile>>

\* return jsonify(...), 500 in the except branch, or 200 after the try
Respond(r) ==
    /\ pc[r] = "respond"
    /\ resp' = [resp EXCEPT ![r] = Append(@, FinalResponse(outcome[r]))]
    /\ pc' = [pc EXCEPT ![r] = "done"]
    /\ UNCHANGED <<inbound, data, outcome, emit, logfile, outbound>>

Next ==
    \E r \in Req :
        \/ Receive(r)
        \/ LogBegin(r)
        \/ LogEnd(r)
        \/ Post(r)
        \/ Respond(r)

Spec == Init /\ [][Next]_vars

\* ---- observations used by the properties ----
Answered(r) == resp[r] # <<>>

Attempts(r) == {i \in DOMAIN outbound : outbound[i].req = r}

Entries(r, kinds) ==
    {i \in DOMAIN logfile :
        logfile[i].req = r /\ logfile[i].part = "msg" /\ logfile[i].msg.kind \in kinds}

\* fragment i starts a whole line carrying message m of request r
WholeLineAt(i, r, m) ==
    /\ logfile[i] = [req |-> r, part |-> "msg", msg |-> m]
    /\ i < Len(logfile)
    /\ logfile[i + 1] = [req |-> r, part |-> "nl", msg |-> m]

Logged(r, m) == \E i \in DOMAIN logfile : WholeLineAt(i, r, m)

ClientError(r) == Answered(r) /\ resp[r][1].status \in {400, 415}

\* C1: every answered request whose body is missing or is not valid JSON got
\* exactly HTTP 400 with the JSON body {"error": "Invalid JSON payload"}.
C1_InvalidBodyGetsJson400 ==
    \A r \in Req :
        (pc[r] = "done" /\ ~json_loads(inbound[r].body).ok)
            => resp[r] = <<[status |-> 400, mimetype |-> "json",
                            body |-> [error |-> "Invalid JSON payload"]]>>

\* C2: every request with a well-formed JSON body is accepted: once handled
\* it has a receipt log line and a forwarding attempt, and it is never
\* answered with HTTP 400.
C2_WellFormedAccepted ==
    \A r \in Req :
        (pc[r] = "done" /\ inbound[r].ctype = "json" /\ json_loads(inbound[r].body).ok)
            => /\ \A i \in DOMAIN resp[r] : resp[r][i].status # 400
               /\ Entries(r, {"receipt"}) # {}
               /\ Attempts(r) # {}

\* C3: when the remote answers the forwarding call with an error status
\* (4xx/5xx), the caller gets HTTP 500 with status "error" and an error is
\* logged; it never gets HTTP 200 with status "success".
C3_RemoteErrorIs500 ==
    \A r \in Req :
        (pc[r] = "done" /\ outcome[r].kind = "response" /\ outcome[r].code >= 400)
            => /\ resp[r][1].status = 500
               /\ resp[r][1].body.status = "error"
               /\ Entries(r, {"error"}) # {}

\* C4: when the outbound POST raises, the error is logged and the caller gets
\* HTTP 500 with {"status":"error","message":"Failed to forward to remote",
\* "error": <text of the failure>}; no success response is ever sent for it.
C4_RaisedPostGives500 ==
    \A r \in Req :
        outcome[r].kind = "raise"
            => /\ \A i \in DOMAIN resp[r] : resp[r][i].status # 200
               /\ pc[r] = "done"
                    => /\ resp[r] = <<[status |-> 500, mimetype |-> "json",
                                       body |-> [status |-> "error",
                                                 message |-> "Failed to forward to remote",
                                                 error |-> outcome[r].err]]>>
                       /\ Logged(r, [kind |-> "error", err |-> outcome[r].err])

C4_Witness ==
    \E r \in Req : pc[r] = "done" /\ outcome[r].kind = "raise"
                   /\ outcome[r].err = "timeout"

\* C5: when the outbound POST returns a response with status code c, the
\* caller gets HTTP 200 with {"status":"success","message":"Alert received
\* and forwarded","remote_status": c}, and c and the remote body are in the
\* log by the time the response is returned.
C5_SuccessCarriesRemoteStatus ==
    \A r \in Req :
        (outcome[r].kind = "response" /\ Answered(r))
            => /\ resp[r] = <<[status |-> 200, mimetype |-> "json",
                               body |-> [status |-> "success",
                                         message |-> "Alert received and forwarded",
                                         remote_status |-> outcome[r].code]]>>
               /\ Logged(r, [kind |-> "forwarded", status |-> outcome[r].code,
                             text |-> outcome[r].text])

C5_Witness ==
    \E r, q \in Req :
        /\ pc[r] = "done" /\ outcome[r].kind = "response" /\ outcome[r].code = 200
        /\ pc[q] = "done" /\ outcome[q].kind = "response" /\ outcome[q].code # 200

C7_RejectedNeverForwarded ==
    \A r \in Req :
        (\E i \in DOMAIN resp[r] : resp[r][i].status = 400) => Attempts(r) = {}

C7_Witness ==
    \E r, q \in Req :
        /\ resp[r] = <<InvalidPayloadResponse>> /\ pc[r] = "done"
        /\ pc[q] = "done" /\ Attempts(q) # {}

\* C8: a request has at most one outbound POST, and once it has been answered
\* with an error (400, 415 or 500) it gets no further forwarding attempt, log
\* entry or response.
C8_SingleAttemptErrorsTerminal ==
    /\ [](\A r \in Req : Cardinality(Attempts(r)) <= 1)
    /\ [][\A r \in Req :
            (Answered(r) /\ resp[r][1].status >= 400)
                => /\ resp'[r] = resp[r]
                   /\ {i \in DOMAIN outbound' : outbound'[i].req = r} = Attempts(r)
                   /\ {i \in DOMAIN logfile' : logfile'[i].req = r}
                        = {i \in DOMAIN logfile : logfile[i].req = r}]_vars

C8_Witness ==
    \E r, q \in Req :
        /\ r # q
        /\ pc[r] = "done" /\ resp[r][1].status = 500 /\ Cardinality(Attempts(r)) = 1
        /\ Len(outbound) >= 2

\* C9: the JSON value carried by every outbound POST equals the JSON value of
\* the inbound body of the request it was made for.
C9_ForwardedEqualsReceived ==
    \A i \in DOMAIN outbound :
        /\ json_loads(outbound[i].body).ok
        /\ json_loads(inbound[outbound[i].req].body).ok
        /\ json_loads(outbound[i].body).value
             = json_loads(inbound[outbound[i].req].body).value

C9_Witness ==
    \E i, j \in DOMAIN outbound :
        /\ outbound[i].req # outbound[j].req
        /\ json_loads(outbound[i].body).value # json_loads(outbound[j].body).value
        /\ Len(json_loads(outbound[i].body).value.members) = 2
        /\ outbound[i].body # inbound[outbound[i].req].body

\* C10: under every interleaving the log file is a sequence of whole lines,
\* each written by one logging call, followed at most by the line the holder
\* of the handler lock is writing; every logging call that has returned left
\* its line in the file.
C10_LineAtomicAppends ==
    /\ \A i \in DOMAIN logfile :
         IF logfile[i].part = "msg"
         THEN \/ WholeLineAt(i, logfile[i].req, logfile[i].msg)
              \/ i = Len(logfile) /\ emit[logfile[i].req] = "partial"
         ELSE i > 1 /\ WholeLineAt(i - 1, logfile[i].req, logfile[i].msg)
    /\ \A r \in Req :
         /\ pc[r] \in {"post", "log_outcome", "respond"}
              => Logged(r, [kind |-> "receipt", data |-> data[r]])
         /\ pc[r] = "respond"
              => \E i \in Entries(r, {"forwarded", "error"}) :
                    WholeLineAt(i, r, logfile[i].msg)

C10_Witness ==
    \E r, q \in Req :
        /\ r # q
        /\ emit[r] = "partial"
        /\ pc[q] \in {"log_receipt", "log_outcome"} /\ emit[q] = "idle"
        /\ Len(logfile) >= 3

====
